---- MODULE Spec2Model ----
(***************************************************************************)
(* Boots to Beats (src/app.py): one Streamlit script run per submission.   *)
(* The run checks the credential, reads the form, issues one remote call,  *)
(* recovers the text, extracts the JSON block, parses it, splits the       *)
(* choreographies into groups and renders them.                            *)
(*                                                                         *)
(* Strings are sequences of one-character strings.  "a" stands for any     *)
(* character other than a brace or a newline.                              *)
(***************************************************************************)
EXTENDS Integers, Sequences, FiniteSets, TLC

VARIABLES
    cred,          \* OPENAI_API_KEY is set (truthy)
    pc,            \* position of the script run
    song_title,    \* the text typed into the "Song title" widget
    max_results,   \* the slider value
    calls,         \* client.responses.create calls issued in this run
    response,      \* the object client.responses.create returned
    text,          \* call_boots_to_beats: text
    json_str,      \* call_boots_to_beats: json_str
    data,          \* data["choreographies"]: the list of item dicts (mutable)
    received,      \* the choreographies exactly as json.loads produced them
    dedicated,     \* returned group: references (1-based positions) into data
    compatible,    \* returned group
    other,         \* returned group
    error,         \* the st.error shown, "none" when none
    shown,         \* what the results area shows
    raw_json       \* what the "Raw JSON response" expander shows

vars == <<cred, pc, song_title, max_results, calls, response, text, json_str,
          data, received, dedicated, compatible, other, error, shown, raw_json>>

----------------------------------------------------------------------------
(* Bounds *)

MaxTextLen == 4     \* longest output_text the remote service returns
MaxParts == 2       \* most content fragments in response.output
MaxChoreos == 3     \* most items in data["choreographies"]
MaxSlider == 2      \* largest slider value explored (the widget allows 5)

----------------------------------------------------------------------------
(* Values *)

None == <<"<None>">>
NL == "\n"
SP == " "

TextChars == {"{", "}", "a"}

StringsUpTo(S, n) == UNION {[1..m -> S] : m \in 0..n}

Texts == StringsUpTo(TextChars, MaxTextLen)

\* content.text of one content item of response.output
Fragments == {None, <<>>, <<"{">>, <<"}">>, <<"a">>}

PartLists == StringsUpTo(Fragments, MaxParts)

\* what the user may type into the title widget
Titles == {<<>>, <<SP>>, <<"Z">>, <<SP, "z">>, <<"q">>}

FitTypes == {"dedicated_for_song", "compatible_generic", "unknown"}
Names == {<<"Z">>, <<"a">>}
Reasons == {None, <<"z">>}

Items == [fit_type : FitTypes, name : Names, reason : Reasons]

Payloads == StringsUpTo(Items, MaxChoreos)

Responses ==
    {[helper |-> TRUE, output_text |-> t, iterable |-> TRUE, output |-> <<>>] :
        t \in Texts}
    \cup
    {[helper |-> FALSE, output_text |-> <<>>, iterable |-> TRUE, output |-> p] :
        p \in PartLists}
    \cup
    {[helper |-> FALSE, output_text |-> <<>>, iterable |-> FALSE, output |-> <<>>]}

NoResponse == [helper |-> FALSE, output_text |-> <<>>, iterable |-> FALSE,
               output |-> <<>>]

----------------------------------------------------------------------------
(* String helpers: str.strip, str.lower, the `in` substring test, join *)

IsSpace(ch) == ch = SP \/ ch = NL

RECURSIVE LStrip(_)
LStrip(s) ==
    IF s = <<>> THEN s
    ELSE IF IsSpace(Head(s)) THEN LStrip(Tail(s)) ELSE s

RECURSIVE RStrip(_)
RStrip(s) ==
    IF s = <<>> THEN s
    ELSE IF IsSpace(s[Len(s)]) THEN RStrip(SubSeq(s, 1, Len(s) - 1)) ELSE s

\* faulty variant: Strip that strips nothing
StripNothing(s) == s

Strip(s) == RStrip(LStrip(s))

LowerChar(ch) == IF ch = "Z" THEN "z" ELSE ch

Lower(s) == [i \in 1..Len(s) |-> LowerChar(s[i])]

\* sub in s
Contains(s, sub) ==
    \E i \in 0..(Len(s) - Len(sub)) : SubSeq(s, i + 1, i + Len(sub)) = sub

\* x or ""
OrEmpty(x) == IF x = None \/ x = <<>> THEN <<>> ELSE x

RECURSIVE Join(_)
\* "\n".join(parts)
Join(parts) ==
    IF parts = <<>> THEN <<>>
    ELSE IF Len(parts) = 1 THEN parts[1]
    ELSE parts[1] \o <<NL>> \o Join(Tail(parts))

----------------------------------------------------------------------------
(* extract_json_block *)

RECURSIVE FindFrom(_, _, _)
FindFrom(s, ch, i) ==
    IF i >= Len(s) THEN -1
    ELSE IF s[i + 1] = ch THEN i ELSE FindFrom(s, ch, i + 1)

RECURSIVE RFindFrom(_, _, _)
RFindFrom(s, ch, i) ==
    IF i < 0 THEN -1
    ELSE IF s[i + 1] = ch THEN i ELSE RFindFrom(s, ch, i - 1)

\* s.rfind(ch): 0-based index of the last occurrence, -1 when absent
RFind(s, ch) == RFindFrom(s, ch, Len(s) - 1)

\* faulty variant: Find that returns the last occurrence
FindLast(s, ch) == RFindFrom(s, ch, Len(s) - 1)

\* s.find(ch): 0-based index of the first occurrence, -1 when absent
Find(s, ch) == FindFrom(s, ch, 0)

\* faulty variant: Slice that leaves out the end index
SliceExclusive(s, start, end) == SubSeq(s, start + 1, end)

\* s[start: end + 1]
Slice(s, start, end) == SubSeq(s, start + 1, end + 1)

ExtractRaises(s) ==
    LET start == Find(s, "{")
        end == RFind(s, "}")
    IN  start = -1 \/ end = -1 \/ end <= start

ExtractJsonBlock(s) == Slice(s, Find(s, "{"), RFind(s, "}"))

----------------------------------------------------------------------------
(* json.loads, as far as the abstraction of the characters decides it *)

DecodeError == [ok |-> FALSE, choreographies |-> <<>>]

JsonLoads(block) ==
    LET bare == SelectSeq(block, LAMBDA ch : ch # NL)
    IN  IF \A i \in 1..Len(block) : block[i] # "a"
        THEN IF bare = <<"{", "}">>
             THEN {[ok |-> TRUE, choreographies |-> <<>>]}
             ELSE {DecodeError}
        ELSE {DecodeError} \cup
             {[ok |-> TRUE, choreographies |-> p] : p \in Payloads}

----------------------------------------------------------------------------
(* split_choreographies.  The groups hold references to the dicts of the   *)
(* input list: a reference is the 1-based position of the dict in choreos. *)
(* `c in group` and `group.remove(c)` compare dicts by value.              *)

Indices(choreos) == [i \in 1..Len(choreos) |-> i]

\* first pass: respect the declared fit_type
FirstPass(choreos) ==
    [choreos |-> choreos,
     dedicated |-> SelectSeq(Indices(choreos),
         LAMBDA i : choreos[i].fit_type = "dedicated_for_song"),
     compatible |-> SelectSeq(Indices(choreos),
         LAMBDA i : choreos[i].fit_type = "compatible_generic"),
     other |-> SelectSeq(Indices(choreos),
         LAMBDA i : choreos[i].fit_type \notin
             {"dedicated_for_song", "compatible_generic"})]

\* (name or "") + " " + (reason or ""), lower-cased
ItemText(c) == Lower(OrEmpty(c.name) \o <<SP>> \o OrEmpty(c.reason))

\* song_lower in text
Mentions(c, song_lower) == Contains(ItemText(c), song_lower)

\* faulty variant: FallbackTriggers without the `not compatible` test
FallbackAlways(compatible_, song_lower) == song_lower # <<>>

\* if not compatible and song_lower
FallbackTriggers(compatible_, song_lower) ==
    compatible_ = <<>> /\ song_lower # <<>>

\* the candidates list: unmentioning dedicated items, then every other item
Candidates(st, song_lower) ==
    SelectSeq(st.dedicated, LAMBDA i : ~Mentions(st.choreos[i], song_lower))
    \o st.other

\* c in group
InGroup(choreos, group, c) ==
    \E j \in 1..Len(group) : choreos[group[j]] = choreos[c]

\* faulty variant: Remove that leaves the group as it is
RemoveNothing(choreos, group, c) == group

\* group.remove(c): drops the first element equal to c
Remove(choreos, group, c) ==
    LET j == CHOOSE j \in 1..Len(group) :
                 /\ choreos[group[j]] = choreos[c]
                 /\ \A m \in 1..(j - 1) : choreos[group[m]] # choreos[c]
    IN  SubSeq(group, 1, j - 1) \o SubSeq(group, j + 1, Len(group))

\* one turn of the loop body for candidate c
MoveOne(st, c) ==
    LET st1 == IF InGroup(st.choreos, st.dedicated, c)
               THEN [st EXCEPT !.dedicated = Remove(st.choreos, @, c)]
               ELSE IF InGroup(st.choreos, st.other, c)
               THEN [st EXCEPT !.other = Remove(st.choreos, @, c)]
               ELSE st
    IN  [st1 EXCEPT !.choreos[c].fit_type = "compatible_generic",
                    !.compatible = Append(@, c)]

RECURSIVE MoveLoop(_, _, _, _)
\* for c in candidates: break once compatible holds max_per_group items
MoveLoop(st, candidates, i, max_per_group) ==
    IF i > Len(candidates) \/ Len(st.compatible) >= max_per_group THEN st
    ELSE MoveLoop(MoveOne(st, candidates[i]), candidates, i + 1, max_per_group)

Fallback(st, song_lower, max_per_group) ==
    IF FallbackTriggers(st.compatible, song_lower)
    THEN MoveLoop(st, Candidates(st, song_lower), 1, max_per_group)
    ELSE st

Prefix(s, n) == SubSeq(s, 1, IF Len(s) > n THEN n ELSE Len(s))

\* trim dedicated and compatible to max_per_group
Trim(st, max_per_group) ==
    [st EXCEPT !.dedicated = Prefix(@, max_per_group),
               !.compatible = Prefix(@, max_per_group)]

SplitChoreographies(choreos, title, max_per_group) ==
    Trim(Fallback(FirstPass(choreos), Lower(title), max_per_group),
         max_per_group)

----------------------------------------------------------------------------
(* The script run *)

Init ==
    /\ cred \in BOOLEAN
    /\ pc = "start"
    /\ song_title = <<>>
    /\ max_results = 1
    /\ calls = 0
    /\ response = NoResponse
    /\ text = None
    /\ json_str = None
    /\ data = <<>>
    /\ received = <<>>
    /\ dedicated = <<>>
    /\ compatible = <<>>
    /\ other = <<>>
    /\ error = "none"
    /\ shown = "nothing"
    /\ raw_json = None

\* faulty variant: Raise that shows the error and issues the call again
RaiseAndGoOn(e) ==
    /\ error' = e
    /\ pc' = "calling"

\* except Exception as e: st.error(...); raise  -- the run ends here
Raise(e) ==
    /\ error' = e
    /\ pc' = "failed"

\* if not OPENAI_API_KEY: st.error(...); st.stop()
CheckCredential ==
    /\ pc = "start"
    /\ \/ /\ ~cred
          /\ error' = "config"
          /\ pc' = "halted"
       \/ /\ cred
          /\ pc' = "form"
          /\ UNCHANGED error
    /\ UNCHANGED <<cred, song_title, max_results, calls, response, text,
                   json_str, data, received, dedicated, compatible, other,
                   shown, raw_json>>

\* the button is pressed with the widgets holding title and k
Submit ==
    /\ pc = "form"
    /\ \E title \in Titles, k \in 1..MaxSlider :
        /\ song_title' = title
        /\ max_results' = k
        /\ \/ /\ Strip(title) = <<>>
              /\ error' = "blank_title"
              /\ pc' = "done"
           \/ /\ Strip(title) # <<>>
              /\ pc' = "calling"
              /\ UNCHANGED error
    /\ UNCHANGED <<cred, calls, response, text, json_str, data, received,
                   dedicated, compatible, other, shown, raw_json>>

\* response = client.responses.create(...)
RemoteCall ==
    /\ pc = "calling"
    /\ calls' = calls + 1
    /\ \/ /\ Raise("call_failed")
          /\ UNCHANGED response
       \/ /\ \E r \in Responses : response' = r
          /\ pc' = "responded"
          /\ UNCHANGED error
    /\ UNCHANGED <<cred, song_title, max_results, text, json_str, data,
                   received, dedicated, compatible, other, shown, raw_json>>

\* the text pieces the fallback collects: content.text that is not None
CollectParts(output) == SelectSeq(output, LAMBDA t : t # None)

\* text = response.output_text, else the joined parts, else RuntimeError
AcquireText ==
    /\ pc = "responded"
    /\ \/ /\ response.helper
          /\ text' = response.output_text
          /\ pc' = "text"
          /\ UNCHANGED error
       \/ /\ ~response.helper
          /\ response.iterable
          /\ text' = Join(CollectParts(response.output))
          /\ pc' = "text"
          /\ UNCHANGED error
       \/ /\ ~response.helper
          /\ ~response.iterable
          /\ Raise("no_output")
          /\ UNCHANGED text
    /\ UNCHANGED <<cred, song_title, max_results, calls, response, json_str,
                   data, received, dedicated, compatible, other, shown,
                   raw_json>>

\* json_str = extract_json_block(text)
ExtractJson ==
    /\ pc = "text"
    /\ \/ /\ ExtractRaises(text)
          /\ Raise("no_json")
          /\ UNCHANGED json_str
       \/ /\ ~ExtractRaises(text)
          /\ json_str' = ExtractJsonBlock(text)
          /\ pc' = "extracted"
          /\ UNCHANGED error
    /\ UNCHANGED <<cred, song_title, max_results, calls, response, text,
                   data, received, dedicated, compatible, other, shown,
                   raw_json>>

\* data = json.loads(json_str); return data
ParseJson ==
    /\ pc = "extracted"
    /\ \E r \in JsonLoads(json_str) :
        \/ /\ ~r.ok
           /\ Raise("bad_json")
           /\ UNCHANGED <<response, text, json_str, data, received>>
        \/ /\ r.ok
           /\ data' = r.choreographies
           /\ received' = r.choreographies
           /\ response' = NoResponse
           /\ text' = None
           /\ json_str' = None
           /\ pc' = "parsed"
           /\ UNCHANGED error
    /\ UNCHANGED <<cred, song_title, max_results, calls, dedicated,
                   compatible, other, shown, raw_json>>

\* the rest of the handler: split, render the groups, show the raw JSON
Render ==
    /\ pc = "parsed"
    /\ \/ /\ data = <<>>
          /\ shown' = "nothing_found"
          /\ UNCHANGED <<data, dedicated, compatible, other>>
          /\ raw_json' = data
       \/ /\ data # <<>>
          /\ LET r == SplitChoreographies(data, Strip(song_title), max_results)
             IN  /\ data' = r.choreos
                 /\ dedicated' = r.dedicated
                 /\ compatible' = r.compatible
                 /\ other' = r.other
                 /\ raw_json' = r.choreos
          /\ shown' = "groups"
    /\ pc' = "done"
    /\ UNCHANGED <<cred, song_title, max_results, calls, response, text,
                   json_str, received, error>>

\* the next script run: the page is loaded afresh
Rerun ==
    /\ pc \in {"done", "failed", "halted"}
    /\ pc' = "start"
    /\ song_title' = <<>>
    /\ max_results' = 1
    /\ calls' = 0
    /\ response' = NoResponse
    /\ text' = None
    /\ json_str' = None
    /\ data' = <<>>
    /\ received' = <<>>
    /\ dedicated' = <<>>
    /\ compatible' = <<>>
    /\ other' = <<>>
    /\ error' = "none"
    /\ shown' = "nothing"
    /\ raw_json' = None
    /\ UNCHANGED cred

Next ==
    \/ CheckCredential
    \/ Submit
    \/ RemoteCall
    \/ AcquireText
    \/ ExtractJson
    \/ ParseJson
    \/ Render
    \/ Rerun

Spec == Init /\ [][Next]_vars

----------------------------------------------------------------------------
(* Vocabulary of the properties *)

InSeq(x, s) == \E j \in 1..Len(s) : s[j] = x

Count(x, s) == Cardinality({j \in 1..Len(s) : s[j] = x})

\* in how many places of the returned groups item i appears
Occurrences(i) == Count(i, dedicated) + Count(i, compatible) + Count(i, other)

Positions == 1..Len(received)

\* the positions the payload declared with the fit types in fts, in input order
Declared(fts) ==
    SelectSeq([i \in Positions |-> i], LAMBDA i : received[i].fit_type \in fts)

DeclaredCompatible == Declared({"compatible_generic"})

\* the requested title as the handler passes it on, lower-cased
RequestedLower == Lower(Strip(song_title))

\* item i, as received, mentions the requested title in name + " " + reason
MentionsTitle(i) ==
    LET shownName == IF received[i].name = None THEN <<>> ELSE received[i].name
        shownReason ==
            IF received[i].reason = None THEN <<>> ELSE received[i].reason
        full == Lower(shownName \o <<SP>> \o shownReason)
    IN  \E a \in 1..Len(full), b \in 1..Len(full) :
            SubSeq(full, a, b) = RequestedLower

\* the fallback moved item i into compatible
Moved(i) == received[i].fit_type # "compatible_generic" /\ InSeq(i, compatible)

MinOf(a, b) == IF a < b THEN a ELSE b

Opens(s) == {i \in 1..Len(s) : s[i] = "{"}
Closes(s) == {i \in 1..Len(s) : s[i] = "}"}
Least(S) == CHOOSE x \in S : \A y \in S : x <= y
Greatest(S) == CHOOSE x \in S : \A y \in S : x >= y

Blank(s) == \A i \in 1..Len(s) : s[i] \in {SP, NL}

PipelineErrors == {"call_failed", "no_output", "no_json", "bad_json"}

----------------------------------------------------------------------------
(* C1: each of the three returned groups has at most max_per_group items.  *)
C1_EveryGroupCapped ==
    shown = "groups" =>
        /\ Len(dedicated) <= max_results
        /\ Len(compatible) <= max_results
        /\ Len(other) <= max_results

(* C2, as stated: every input item appears in exactly one returned group,  *)
(* the capping step included.                                              *)
C2_ExactlyOneGroup ==
    shown = "groups" => \A i \in Positions : Occurrences(i) = 1

(* C2, amended: the returned groups hold input items only, no item appears *)
(* twice, and an item appears in no group only when capping cut it from a  *)
(* dedicated or compatible group that is returned full.                    *)
C2_DisjointAndLostOnlyByCap ==
    shown = "groups" =>
        /\ \A g \in {dedicated, compatible, other} :
               \A j \in 1..Len(g) : g[j] \in Positions
        /\ \A i \in Positions :
            /\ Occurrences(i) <= 1
            /\ Occurrences(i) = 0 =>
                \/ /\ data[i].fit_type = "dedicated_for_song"
                   /\ Len(dedicated) = max_results
                \/ /\ data[i].fit_type = "compatible_generic"
                   /\ Len(compatible) = max_results

\* the fallback moved an item and the capping cut another one
C2_Witness ==
    /\ shown = "groups"
    /\ \E i \in Positions : Moved(i)
    /\ \E i \in Positions : Occurrences(i) = 0

(* C3, as stated: with a declared compatible_generic item, nothing moves   *)
(* and the returned dedicated and other groups are exactly the declared    *)
(* ones, in input order.                                                   *)
C3_DeclaredGroupsReturnedWhole ==
    (shown = "groups" /\ DeclaredCompatible # <<>>) =>
        /\ data = received
        /\ dedicated = Declared({"dedicated_for_song"})
        /\ other = Declared({"unknown"})

(* C3, amended: with a declared compatible_generic item, no item is moved  *)
(* or changed; the returned dedicated group is the declared dedicated      *)
(* items in input order cut to the first max_per_group, and the returned   *)
(* other group is exactly the declared other items in input order.         *)
C3_NoFallbackWhenCompatibleDeclared ==
    (shown = "groups" /\ DeclaredCompatible # <<>>) =>
        /\ data = received
        /\ dedicated = Prefix(Declared({"dedicated_for_song"}), max_results)
        /\ compatible = Prefix(DeclaredCompatible, max_results)
        /\ other = Declared({"unknown"})

\* a compatible item is declared, a dedicated item does not mention the
\* title, and more dedicated items are declared than the cap allows
C3_Witness ==
    /\ shown = "groups"
    /\ DeclaredCompatible # <<>>
    /\ Len(Declared({"dedicated_for_song"})) > max_results
    /\ \E i \in Positions :
           received[i].fit_type = "dedicated_for_song" /\ ~MentionsTitle(i)

(* C4: every item the fallback moves into compatible, from dedicated or    *)
(* from other, does not mention the requested title.                       *)
C4_MovedItemsDoNotMentionTitle ==
    shown = "groups" => \A i \in Positions : Moved(i) => ~MentionsTitle(i)

(* C5: with no declared compatible item, compatible holds                  *)
(* min(max_per_group, number of eligible items) items, and a moved         *)
(* eligible item has every earlier eligible item moved too.                *)
C5_EarliestEligibleMoved ==
    (shown = "groups" /\ DeclaredCompatible = <<>>) =>
        LET Eligible == {i \in Positions : ~MentionsTitle(i)}
        IN  /\ Len(compatible) = MinOf(max_results, Cardinality(Eligible))
            /\ \A i \in Eligible : \A j \in Eligible :
                   (Moved(i) /\ j < i) => Moved(j)

(* C6: extract_json_block returns the text from its first "{" to its last  *)
(* "}" inclusive, and raises, returning nothing, exactly when there is no  *)
(* "{", no "}", or the last "}" is before the first "{".                   *)
C6_ExtractFirstOpenToLastClose ==
    /\ pc = "extracted" =>
        /\ Opens(text) # {}
        /\ Closes(text) # {}
        /\ Least(Opens(text)) < Greatest(Closes(text))
        /\ json_str = SubSeq(text, Least(Opens(text)), Greatest(Closes(text)))
    /\ error = "no_json" =>
        /\ \/ Opens(text) = {}
           \/ Closes(text) = {}
           \/ Greatest(Closes(text)) < Least(Opens(text))
        /\ json_str = None
    /\ pc = "text" => (ENABLED ExtractJson)

\* a block was cut out of a text with several "{" and prose around it
C6_Witness ==
    /\ pc = "extracted"
    /\ Cardinality(Opens(text)) > 1
    /\ Len(json_str) < Len(text)

(* C7: extracting from an extracted block succeeds and returns the block.  *)
C7_ExtractIdempotent ==
    pc = "extracted" =>
        /\ ~ExtractRaises(json_str)
        /\ ExtractJsonBlock(json_str) = json_str

\* the first extraction removed surrounding text
C7_Witness == pc = "extracted" /\ json_str # text /\ Len(json_str) > 2

(* C8: the stages run in the order remote call, text acquisition, JSON     *)
(* extraction, JSON parsing; a failing stage ends the request: an error is *)
(* shown, no later stage runs, no second remote call is issued and no      *)
(* group is rendered.                                                      *)
C8_Step ==
    /\ pc = "calling" => pc' \in {"responded", "failed"}
    /\ pc = "responded" => pc' \in {"text", "failed"}
    /\ pc = "text" => pc' \in {"extracted", "failed"}
    /\ pc = "extracted" => pc' \in {"parsed", "failed"}
    /\ pc = "parsed" => pc' = "done"
    /\ calls' > calls => (pc = "calling" /\ calls = 0)
    /\ error' \in PipelineErrors => pc' = "failed"
    /\ pc' = "failed" =>
        /\ error' \in PipelineErrors
        /\ calls' = 1
        /\ shown' = "nothing"
        /\ dedicated' = <<>> /\ compatible' = <<>> /\ other' = <<>>
        /\ raw_json' = None
    /\ pc = "failed" => (pc' = "start" /\ calls' = 0)

C8_FailureIsTerminal == [][C8_Step]_vars

\* the last stage failed after the three before it succeeded
C8_Witness == pc = "failed" /\ error = "bad_json" /\ calls = 1

(* C9: split_choreographies leaves its input as it was, and the raw JSON   *)
(* shown afterwards is the payload as received.                            *)
C9_InputUnchanged ==
    shown = "groups" => (data = received /\ raw_json = received)

(* C10: a remote call is issued only with the credential present and a     *)
(* title that is not blank; a missing credential halts the run with an     *)
(* error before the form, a blank title shows an error and issues no call, *)
(* and a run issues at most one call.                                      *)
C10_CallOnlyWithCredentialAndTitle ==
    /\ calls <= 1
    /\ calls = 1 => (cred /\ ~Blank(song_title))
    /\ ~cred => (pc \in {"start", "halted"} /\ calls = 0)
    /\ pc = "halted" => (error = "config" /\ ~cred)
    /\ (pc \notin {"start", "form", "halted"} /\ Blank(song_title)) =>
           (error = "blank_title" /\ calls = 0 /\ pc = "done")

\* a title of one space was submitted
C10_Witness == error = "blank_title" /\ song_title = <<SP>>

====
